---- MODULE Spec2Model ----
(***************************************************************************)
(* Model of the plan-acquisition layer of src/crew.py (class HouseCrew):   *)
(* the text extractor _clean_json_from_text, the strict parse json.loads   *)
(* that generate_plan applies to the candidate, the deterministic          *)
(* _local_fallback_plan, and the backend loop of generate_plan.            *)
(*                                                                         *)
(* A text is a sequence of chunks.  Backend texts are written over the     *)
(* chunks FENCE, LBRACE, RBRACE, JSONTAG, QUOTE, KEY, NUM, WS and WORD;    *)
(* form inputs are sequences of single characters.                         *)
(***************************************************************************)
EXTENDS Integers, Sequences, FiniteSets, TLC

VARIABLES
  GEMINI_SDK_AVAILABLE, \* crew.py:8-12, whether the client library imported
  GEMINI_API_KEY,       \* crew.py:15, the credential ("" when absent)
  available,            \* HouseCrew.available, crew.py:40
  pc,                   \* position of the running operation
  area, budget, rooms, style, furniture, \* the five inputs of the call
  idx,                  \* 1-based position of the for loop in models_to_try
  invoked,              \* model names handed to genai.GenerativeModel, in order
  hist,                 \* how each attempt of the call ended
  text,                 \* local text of generate_plan / argument of the extractor
  extracted,            \* value returned by _clean_json_from_text
  cleaned,              \* local cleaned of generate_plan, as handed to json.loads
  last_err,             \* local last_err of generate_plan
  result,               \* what the operation returned or raised
  shape, seg1, body, tag \* how the extractor's argument was composed

vars == <<GEMINI_SDK_AVAILABLE, GEMINI_API_KEY, available, pc, area, budget,
          rooms, style, furniture, idx, invoked, hist, text, extracted,
          cleaned, last_err, result, shape, seg1, body, tag>>

----------------------------------------------------------------------------
(* Chunks of a backend text *)

FENCE   == "fence"  \* the three-backtick marker
LBRACE  == "{"
RBRACE  == "}"
JSONTAG == "json"
QUOTE   == "\""
KEY     == "\"summary\":"
NUM     == "1"
WS      == " "
WORD    == "x"

(* Optional[str]: None is [some |-> FALSE] *)
None == [some |-> FALSE, s |-> <<>>]
Some(s) == [some |-> TRUE, s |-> s]

Contains(s, c) == \E i \in 1..Len(s) : s[i] = c

Indices(s, c) == {i \in 1..Len(s) : s[i] = c}

Min(S) == CHOOSE m \in S : \A n \in S : m <= n
Max(S) == CHOOSE m \in S : \A n \in S : m >= n

(* str.strip(): leading and trailing whitespace removed *)
Strip(s) ==
  LET keep == {i \in 1..Len(s) : s[i] # WS}
  IN  IF keep = {} THEN <<>> ELSE SubSeq(s, Min(keep), Max(keep))

(* str.split(fence): the pieces between the fence markers, in order *)
RECURSIVE Split(_, _)
Split(s, sep) ==
  LET at == Indices(s, sep)
  IN  IF at = {} THEN <<s>>
      ELSE <<SubSeq(s, 1, Min(at) - 1)>> \o Split(SubSeq(s, Min(at) + 1, Len(s)), sep)

(* str.replace(old, "", 1): the first occurrence of old removed *)
ReplaceFirst(s, old) ==
  LET at == Indices(s, old)
  IN  IF at = {} THEN s
      ELSE SubSeq(s, 1, Min(at) - 1) \o SubSeq(s, Min(at) + 1, Len(s))

(* re.search(r"(\{.*\})", s, flags=re.S): from the first "{" to the last "}"
   after it; no match when there is none *)
OuterBraces(s) ==
  LET opens  == Indices(s, LBRACE)
      closes == Indices(s, RBRACE)
  IN  IF opens # {} /\ closes # {} /\ Max(closes) > Min(opens)
      THEN Some(SubSeq(s, Min(opens), Max(closes)))
      ELSE None

(* the body of the loop over parts, for the first part holding a brace *)
CandidateOf(p) ==
  LET candidate == Strip(ReplaceFirst(p, JSONTAG))
      m == OuterBraces(candidate)
  IN  IF m.some THEN m ELSE Some(Strip(candidate))

(* Faulty variant: only the first fenced segment (parts[1]) is inspected *)
clean_first_fenced_only(t) ==
  LET s == Strip(t)
      parts == Split(s, FENCE)
  IN  IF Contains(s, FENCE)
      THEN IF Len(parts) >= 2 /\ Contains(parts[2], LBRACE)
           THEN CandidateOf(parts[2]) ELSE None
      ELSE OuterBraces(s)

(* Faulty variant: with no brace-delimited region the stripped text itself is returned *)
clean_whole_text_when_no_region(t) ==
  LET s == Strip(t)
      parts == Split(s, FENCE)
      withBrace == {i \in 1..Len(parts) : Contains(parts[i], LBRACE)}
      m == OuterBraces(s)
  IN  IF Contains(s, FENCE) /\ withBrace # {}
      THEN CandidateOf(parts[Min(withBrace)])
      ELSE IF m.some THEN m ELSE Some(s)

(* HouseCrew._clean_json_from_text *)
_clean_json_from_text(t) ==
  LET s == Strip(t)
      parts == Split(s, FENCE)
      withBrace == {i \in 1..Len(parts) : Contains(parts[i], LBRACE)}
  IN  IF Contains(s, FENCE) /\ withBrace # {}
      THEN CandidateOf(parts[Min(withBrace)])
      ELSE OuterBraces(s)

----------------------------------------------------------------------------
(* json.loads on a text: strict JSON over the chunks.
   value  ::= NUM | QUOTE chunk* QUOTE | LBRACE RBRACE | LBRACE KEY value RBRACE
   with whitespace allowed around every value.  A parsed value is
   [t, s, m]: its type, the chunks of a string, the members of an object. *)

JNum      == [t |-> "num", s |-> <<>>, m |-> <<>>]
JStr(s)   == [t |-> "str", s |-> s, m |-> <<>>]
JObj(m)   == [t |-> "obj", s |-> <<>>, m |-> m]
JNull     == [t |-> "null", s |-> <<>>, m |-> <<>>]

ParseFail == [ok |-> FALSE, val |-> JNull, next |-> 0]
ParseOk(v, n) == [ok |-> TRUE, val |-> v, next |-> n]

RECURSIVE SkipWs(_, _)
SkipWs(s, i) == IF i <= Len(s) /\ s[i] = WS THEN SkipWs(s, i + 1) ELSE i

RECURSIVE ParseValue(_, _)
ParseValue(s, i0) ==
  LET i == SkipWs(s, i0)
  IN  IF i > Len(s) THEN ParseFail
      ELSE IF s[i] = NUM THEN ParseOk(JNum, i + 1)
      ELSE IF s[i] = QUOTE THEN
        LET ends == {j \in (i + 1)..Len(s) : s[j] = QUOTE}
        IN  IF ends = {} THEN ParseFail
            ELSE ParseOk(JStr(SubSeq(s, i + 1, Min(ends) - 1)), Min(ends) + 1)
      ELSE IF s[i] = LBRACE THEN
        LET j == SkipWs(s, i + 1)
        IN  IF j > Len(s) THEN ParseFail
            ELSE IF s[j] = RBRACE THEN ParseOk(JObj(<<>>), j + 1)
            ELSE IF s[j] = KEY THEN
              LET v == ParseValue(s, j + 1)
                  k == IF v.ok THEN SkipWs(s, v.next) ELSE 0
              IN  IF v.ok /\ k <= Len(s) /\ s[k] = RBRACE
                  THEN ParseOk(JObj(<<[k |-> "summary", v |-> v.val]>>), k + 1)
                  ELSE ParseFail
            ELSE ParseFail
      ELSE ParseFail

(* json.loads(s): [ok |-> FALSE] stands for the JSONDecodeError it raises *)
json_loads(s) ==
  LET v == ParseValue(s, 1)
  IN  IF v.ok /\ SkipWs(s, v.next) > Len(s) THEN [ok |-> TRUE, val |-> v.val]
      ELSE [ok |-> FALSE, val |-> JNull]

----------------------------------------------------------------------------
(* int(s) and str(n) on character sequences *)

Digits == {"0", "1", "2", "3", "4", "5", "6", "7", "8", "9"}

DigitVal(c) ==
  CASE c = "0" -> 0 [] c = "1" -> 1 [] c = "2" -> 2 [] c = "3" -> 3 [] c = "4" -> 4
    [] c = "5" -> 5 [] c = "6" -> 6 [] c = "7" -> 7 [] c = "8" -> 8 [] c = "9" -> 9

DigitChar(d) ==
  CASE d = 0 -> "0" [] d = 1 -> "1" [] d = 2 -> "2" [] d = 3 -> "3" [] d = 4 -> "4"
    [] d = 5 -> "5" [] d = 6 -> "6" [] d = 7 -> "7" [] d = 8 -> "8" [] d = 9 -> "9"

RECURSIVE DigitsValue(_)
DigitsValue(s) ==
  IF s = <<>> THEN 0
  ELSE 10 * DigitsValue(SubSeq(s, 1, Len(s) - 1)) + DigitVal(s[Len(s)])

(* int(s): surrounding whitespace dropped, then an optional sign and at least
   one decimal digit; [ok |-> FALSE] stands for the ValueError it raises *)
int(s) ==
  LET t      == Strip(s)
      signed == t # <<>> /\ t[1] \in {"-", "+"}
      ds     == IF signed THEN Tail(t) ELSE t
  IN  IF ds # <<>> /\ \A i \in 1..Len(ds) : ds[i] \in Digits
      THEN [ok |-> TRUE,
            n  |-> IF signed /\ t[1] = "-" THEN 0 - DigitsValue(ds) ELSE DigitsValue(ds)]
      ELSE [ok |-> FALSE, n |-> 0]

(* str(n) for n >= 0, as the f-strings format base and i *)
RECURSIVE str(_)
str(n) == IF n < 10 THEN <<DigitChar(n)>> ELSE str(n \div 10) \o <<DigitChar(n % 10)>>

Max2(a, b) == IF a >= b THEN a ELSE b

----------------------------------------------------------------------------
(* Outcomes of an operation: a returned value or a raised exception.  A value
   returned by the fallback is a Plan record; a value parsed from backend text
   is a parsed JSON value. *)

PlanKeys == {"summary", "room_plan", "materials", "estimated_cost", "design_features"}

NoPlan == [none |-> TRUE]

Returned(p) == [kind |-> "returned", src |-> "fallback", plan |-> p, json |-> JNull]
ReturnedJson(v) == [kind |-> "returned", src |-> "backend", plan |-> NoPlan, json |-> v]
Raised(e) == [kind |-> "raised", src |-> e, plan |-> NoPlan, json |-> JNull]
NoResult == [kind |-> "none", src |-> "none", plan |-> NoPlan, json |-> JNull]

Template ==
  << [room |-> <<"Master Bedroom">>, size |-> <<"12x14 ft">>],
     [room |-> <<"Living Room">>,    size |-> <<"14x16 ft">>],
     [room |-> <<"Kitchen">>,        size |-> <<"10x12 ft">>] >>

PlanOf(room_plan, bud, rms, sty, fur) ==
  [ summary         |-> <<"Local fallback plan: ">> \o rms \o <<" rooms, style=">>
                          \o sty \o <<", furniture=">> \o fur,
    room_plan       |-> room_plan,
    materials       |-> <<"Cement - 30 bags", "Bricks - 5000 units", "Sand - 10 tons">>,
    estimated_cost  |-> <<"Rs">> \o bud \o <<" (approx)">>,  \* "Rs" is the rupee sign
    design_features |-> <<"Natural ventilation", "Basic modern lighting">> ]

RoomEntry(i, base) ==
  [room |-> <<"Room ">> \o str(i), size |-> str(base) \o <<"x">> \o str(base) \o <<" ft">>]

(* Faulty variant: the per-room base is area divided by rooms, without the floor of 8 *)
fallback_without_floor(ar, bud, rms, sty, fur) ==
  LET r == int(rms)
  IN  IF r.ok /\ r.n # 0 /\ r.n > 0
      THEN LET a == int(ar)
           IN  IF ~a.ok THEN Raised("ValueError")
               ELSE Returned(PlanOf([i \in 1..r.n |-> RoomEntry(i, a.n \div Max2(1, r.n))],
                                    bud, rms, sty, fur))
      ELSE Returned(PlanOf(Template, bud, rms, sty, fur))

(* Faulty variant: the rooms test is "is not None" instead of truthy and positive *)
fallback_any_parsed_rooms(ar, bud, rms, sty, fur) ==
  LET r == int(rms)
  IN  IF r.ok
      THEN LET a == int(ar)
           IN  IF ~a.ok THEN Raised("ValueError")
               ELSE Returned(PlanOf([i \in 1..r.n |-> RoomEntry(i, Max2(8, a.n \div Max2(1, r.n)))],
                                    bud, rms, sty, fur))
      ELSE Returned(PlanOf(Template, bud, rms, sty, fur))

(* HouseCrew._local_fallback_plan.  int(area) is evaluated outside any try:
   its ValueError leaves the function. *)
_local_fallback_plan(ar, bud, rms, sty, fur) ==
  LET r == int(rms)
  IN  IF r.ok /\ r.n # 0 /\ r.n > 0
      THEN LET a == int(ar)
           IN  IF ~a.ok THEN Raised("ValueError")
               ELSE Returned(PlanOf([i \in 1..r.n |-> RoomEntry(i, Max2(8, a.n \div Max2(1, r.n)))],
                                    bud, rms, sty, fur))
      ELSE Returned(PlanOf(Template, bud, rms, sty, fur))

----------------------------------------------------------------------------
(* Bounds and the inputs drawn within them *)

MaxAreaLen  == 3
MaxRoomsLen == 2
MaxBodyLen  == 2

SeqsUpTo(S, n) == UNION {[1..k -> S] : k \in 0..n}

AreaChars  == {"0", "9", "a"}
RoomsChars == {"0", "3", "-", "a", " "}

Areas      == SeqsUpTo(AreaChars, MaxAreaLen)
RoomsVals  == SeqsUpTo(RoomsChars, MaxRoomsLen)
Budgets    == {<<>>, <<"9">>}
Styles     == {<<"a">>}
Furnitures == {<<"a">>}

(* inputs of the requests made against generate_plan *)
CallAreas == {<<"9", "0", "0">>, <<"a">>, <<>>}
CallRooms == {<<"3">>, <<"0">>, <<"-", "3">>, <<"a">>}

BodyChunks == {LBRACE, RBRACE, KEY, NUM, QUOTE, JSONTAG, WORD}

LongBodies ==
  { <<LBRACE, KEY, NUM, RBRACE>>,
    <<LBRACE, KEY, QUOTE, WORD, QUOTE, RBRACE>>,
    <<LBRACE, KEY, QUOTE, JSONTAG, QUOTE, RBRACE>>,
    <<LBRACE, KEY, LBRACE, RBRACE, RBRACE>>,
    <<LBRACE, KEY, NUM, RBRACE, RBRACE>> }

Bodies == SeqsUpTo(BodyChunks, MaxBodyLen) \cup LongBodies

Pres  == {<<>>, <<WORD, WS>>, <<WORD, JSONTAG, WS>>}
Posts == {<<>>, <<WS, WORD>>}
Tags  == {<<>>, <<JSONTAG>>}
Seg1s == {<<>>, <<WORD>>, <<JSONTAG, WS, WORD>>}

Fenced(tg, b) == <<FENCE>> \o tg \o <<WS>> \o b \o <<WS, FENCE>>

(* the text a backend composes: a body alone, a body in one fence, or a body in
   the second of two fences, between brace-free narrative *)
Compose(sh, pre, s1, tg, b, post) ==
  CASE sh = "plain"  -> pre \o b \o post
    [] sh = "fenced" -> pre \o Fenced(tg, b) \o post
    [] sh = "two"    -> pre \o <<FENCE>> \o s1 \o <<FENCE, WS>> \o Fenced(tg, b) \o post

----------------------------------------------------------------------------
(* The extractor alone: _clean_json_from_text applied to a composed text,
   and json.loads applied to what it returns (crew.py:137-143) *)

InitClean ==
  /\ GEMINI_SDK_AVAILABLE = TRUE /\ GEMINI_API_KEY = <<"k">> /\ available = TRUE
  /\ pc = "idle"
  /\ area = <<>> /\ budget = <<>> /\ rooms = <<>> /\ style = <<>> /\ furniture = <<>>
  /\ idx = 0 /\ invoked = <<>> /\ hist = <<>>
  /\ extracted = None /\ cleaned = <<>> /\ last_err = "None" /\ result = NoResult
  /\ shape \in {"plain", "fenced", "two"}
  /\ body \in Bodies
  /\ tag \in (IF shape = "plain" THEN {<<>>} ELSE Tags)
  /\ seg1 \in (IF shape = "two" THEN Seg1s ELSE {<<>>})
  /\ \E pre \in Pres, post \in Posts : text = Compose(shape, pre, seg1, tag, body, post)

Extract ==
  /\ pc = "idle"
  /\ extracted' = _clean_json_from_text(text)
  /\ result' = IF extracted'.some /\ json_loads(extracted'.s).ok
               THEN ReturnedJson(json_loads(extracted'.s).val)
               ELSE Raised("ExtractionFailed")
  /\ pc' = "done"
  /\ UNCHANGED <<GEMINI_SDK_AVAILABLE, GEMINI_API_KEY, available, area, budget,
                 rooms, style, furniture, idx, invoked, hist, text, cleaned,
                 last_err, shape, seg1, body, tag>>

NextClean == Extract

SpecClean == InitClean /\ [][NextClean]_vars

----------------------------------------------------------------------------
(* The fallback generator alone *)

InitFallback ==
  /\ GEMINI_SDK_AVAILABLE = FALSE /\ GEMINI_API_KEY = <<>> /\ available = FALSE
  /\ pc = "idle"
  /\ area \in Areas /\ rooms \in RoomsVals
  /\ budget \in Budgets /\ style \in Styles /\ furniture \in Furnitures
  /\ idx = 0 /\ invoked = <<>> /\ hist = <<>>
  /\ text = <<>> /\ extracted = None /\ cleaned = <<>>
  /\ last_err = "None" /\ result = NoResult
  /\ shape = "none" /\ seg1 = <<>> /\ body = <<>> /\ tag = <<>>

Fallback ==
  /\ pc = "idle"
  /\ result' = _local_fallback_plan(area, budget, rooms, style, furniture)
  /\ pc' = "done"
  /\ UNCHANGED <<GEMINI_SDK_AVAILABLE, GEMINI_API_KEY, available, area, budget,
                 rooms, style, furniture, idx, invoked, hist, text, extracted,
                 cleaned, last_err, shape, seg1, body, tag>>

NextFallback == Fallback

SpecFallback == InitFallback /\ [][NextFallback]_vars

----------------------------------------------------------------------------
(* HouseCrew over successive requests: construction, then generate_plan calls *)

models_to_try == <<"gemini-pro", "gemini-1.5-flash", "gemini-2.0-flash", "text-bison-001">>

CallBudgets == {<<"9">>}

(* what one backend attempt can do: raise, or return a response object whose
   text may sit in .text, in .content or in .candidates, or nowhere (then
   str(response) is used) *)
Response(t, c, hc, cd, r) ==
  [raises |-> FALSE, text |-> t, content |-> c, has_candidates |-> hc,
   candidates |-> cd, repr |-> r]

BackendRaises ==
  [raises |-> TRUE, text |-> <<>>, content |-> <<>>, has_candidates |-> FALSE,
   candidates |-> <<>>, repr |-> <<>>]

CallTexts ==
  { <<WORD>>, <<NUM>>, <<WS>>, <<QUOTE, WORD, QUOTE>>,
    <<WS, LBRACE, RBRACE, WS>>,
    <<LBRACE, KEY, NUM, RBRACE>>,
    <<LBRACE, KEY, NUM>>,
    Compose("fenced", <<WORD, WS>>, <<>>, <<JSONTAG>>, <<LBRACE, KEY, NUM, RBRACE>>, <<WS, WORD>>),
    Compose("fenced", <<WORD, WS>>, <<>>, <<>>, <<WORD>>, <<>>) }

ReprTexts == { <<WORD>>, <<WORD, LBRACE, WORD, RBRACE>> }

BackendOutcomes ==
  {BackendRaises}
    \cup {Response(t, <<>>, FALSE, <<>>, <<WORD>>) : t \in CallTexts}
    \cup {Response(<<>>, <<LBRACE, RBRACE>>, FALSE, <<>>, <<WORD>>)}
    \cup {Response(<<>>, <<>>, TRUE, cd, <<WORD>>) : cd \in {<<>>, <<NUM, WS>>}}
    \cup {Response(<<>>, <<>>, FALSE, <<>>, r) : r \in ReprTexts}

(* crew.py:128-134: the first non-empty of .text, .content, .candidates, else
   str(response); stripped *)
ResponseText(o) ==
  LET t0 == IF o.text # <<>> THEN o.text ELSE o.content
      t1 == IF t0 = <<>> /\ o.has_candidates THEN o.candidates ELSE t0
      t2 == IF t1 = <<>> THEN o.repr ELSE t1
  IN  Strip(t2)

Plain(t) == ~Contains(t, LBRACE) /\ ~Contains(t, RBRACE) /\ ~Contains(t, FENCE)

Init ==
  /\ GEMINI_SDK_AVAILABLE \in BOOLEAN
  /\ GEMINI_API_KEY \in {<<>>, <<"k">>}
  /\ available = (GEMINI_SDK_AVAILABLE /\ GEMINI_API_KEY # <<>>)
  /\ pc = "idle"
  /\ area \in CallAreas /\ rooms \in CallRooms
  /\ budget \in CallBudgets /\ style \in Styles /\ furniture \in Furnitures
  /\ idx = 0 /\ invoked = <<>> /\ hist = <<>>
  /\ text = <<>> /\ extracted = None /\ cleaned = <<>>
  /\ last_err = "None" /\ result = NoResult
  /\ shape = "none" /\ seg1 = <<>> /\ body = <<>> /\ tag = <<>>

(* main.py generate(): the next request calls crew.generate_plan afresh *)
Request ==
  /\ pc = "done"
  /\ pc' = "idle"
  /\ area' \in CallAreas /\ rooms' \in CallRooms
  /\ budget' \in CallBudgets /\ style' \in Styles /\ furniture' \in Furnitures
  /\ idx' = 0 /\ invoked' = <<>> /\ hist' = <<>>
  /\ text' = <<>> /\ extracted' = None /\ cleaned' = <<>>
  /\ last_err' = "None" /\ result' = NoResult
  /\ UNCHANGED <<GEMINI_SDK_AVAILABLE, GEMINI_API_KEY, available, shape, seg1, body, tag>>

(* generate_plan, not available: the fallback at once *)
GenerateUnavailable ==
  /\ pc = "idle" /\ ~available
  /\ result' = _local_fallback_plan(area, budget, rooms, style, furniture)
  /\ pc' = "done"
  /\ UNCHANGED <<GEMINI_SDK_AVAILABLE, GEMINI_API_KEY, available, area, budget,
                 rooms, style, furniture, idx, invoked, hist, text, extracted,
                 cleaned, last_err, shape, seg1, body, tag>>

(* generate_plan, available: the loop over models_to_try is entered *)
GenerateBegin ==
  /\ pc = "idle" /\ available
  /\ pc' = "loop" /\ idx' = 1 /\ last_err' = "None"
  /\ UNCHANGED <<GEMINI_SDK_AVAILABLE, GEMINI_API_KEY, available, area, budget,
                 rooms, style, furniture, invoked, hist, text, extracted,
                 cleaned, result, shape, seg1, body, tag>>

(* Faulty variant: the list is walked from its end *)
ModelAtReversed(i) == models_to_try[Len(models_to_try) + 1 - i]

(* the model name of iteration i of the for loop *)
ModelAt(i) == models_to_try[i]

(* Faulty variant: the handler leaves the loop (break) instead of continuing *)
OnExceptionBreak(e) ==
  /\ last_err' = e
  /\ idx' = Len(models_to_try) + 1
  /\ pc' = "loop"
  /\ result' = result

(* the except clause: remember the error, continue with the next model *)
OnException(e) ==
  /\ last_err' = e
  /\ idx' = idx + 1
  /\ pc' = "loop"
  /\ result' = result

(* one iteration of the for loop: the try body and its except clause *)
Attempt ==
  /\ pc = "loop" /\ idx <= Len(models_to_try)
  /\ invoked' = Append(invoked, ModelAt(idx))
  /\ \E o \in BackendOutcomes :
       IF o.raises
       THEN /\ OnException("BackendError")
            /\ hist' = Append(hist, [end |-> "raised", plain |-> FALSE])
            /\ UNCHANGED <<text, extracted, cleaned>>
       ELSE LET t  == ResponseText(o)
                c  == _clean_json_from_text(t)
                c2 == IF ~c.some \/ c.s = <<>> THEN t ELSE c.s
                p  == json_loads(c2)
            IN  /\ text' = t
                /\ extracted' = c
                /\ cleaned' = c2
                /\ IF p.ok
                   THEN /\ result' = ReturnedJson(p.val)
                        /\ pc' = "done"
                        /\ hist' = Append(hist, [end |-> "parsed", plain |-> Plain(t)])
                        /\ UNCHANGED <<idx, last_err>>
                   ELSE /\ OnException("JSONDecodeError")
                        /\ hist' = Append(hist, [end |-> "unparsed", plain |-> Plain(t)])
  /\ UNCHANGED <<GEMINI_SDK_AVAILABLE, GEMINI_API_KEY, available, area, budget,
                 rooms, style, furniture, shape, seg1, body, tag>>

(* after the loop: every model failed, the fallback is returned *)
GenerateExhausted ==
  /\ pc = "loop" /\ idx > Len(models_to_try)
  /\ result' = _local_fallback_plan(area, budget, rooms, style, furniture)
  /\ pc' = "done"
  /\ UNCHANGED <<GEMINI_SDK_AVAILABLE, GEMINI_API_KEY, available, area, budget,
                 rooms, style, furniture, idx, invoked, hist, text, extracted,
                 cleaned, last_err, shape, seg1, body, tag>>

Next ==
  \/ Request
  \/ GenerateUnavailable
  \/ GenerateBegin
  \/ Attempt
  \/ GenerateExhausted

Spec == Init /\ [][Next]_vars

----------------------------------------------------------------------------
(* Properties *)

RoomsCount == int(rooms)
AreaValue  == int(area)
PositiveRooms == RoomsCount.ok /\ RoomsCount.n > 0

FallbackOutcome == _local_fallback_plan(area, budget, rooms, style, furniture)

JsonKeys(v) == {v.m[i].k : i \in 1..Len(v.m)}

(* a returned value that is a mapping holding the five keys *)
IsCompletePlan(r) ==
  /\ r.kind = "returned"
  /\ r.src = "fallback" => DOMAIN r.plan = PlanKeys
  /\ r.src = "backend"  => r.json.t = "obj" /\ PlanKeys \subseteq JsonKeys(r.json)

IsJsonObject(b) == b # <<>> /\ b[1] = LBRACE /\ json_loads(b).ok

Responded == \E n \in 1..Len(hist) : hist[n].end # "raised"
LastEnd == IF hist = <<>> THEN "none" ELSE hist[Len(hist)].end

(* C1: every generate_plan call returns, without raising, a mapping that holds
   the five keys summary, room_plan, materials, estimated_cost and
   design_features. *)
C1_ReturnsCompletePlan ==
  pc = "done" => IsCompletePlan(result)

(* C2: for rooms parsing as a positive integer r, _local_fallback_plan returns
   a complete five-key Plan whatever the area; with a non-numeric area the r
   rooms are each sized "8x8 ft". *)
C2_FallbackNeverFails ==
  (pc = "done" /\ PositiveRooms) =>
    /\ result.kind = "returned"
    /\ DOMAIN result.plan = PlanKeys
    /\ ~AreaValue.ok =>
         /\ Len(result.plan.room_plan) = RoomsCount.n
         /\ \A i \in 1..RoomsCount.n :
              result.plan.room_plan[i].size = <<"8", "x", "8", " ft">>

(* C3: within one call the backends are invoked in list order, each at most
   once, attempt n+1 only after attempt n failed; when the attempts before the
   last all raised and the last returned text that extracts and parses, the
   call returns the value parsed from that text and no further backend is
   invoked. *)
C3_BackendsInOrder ==
  /\ Len(invoked) <= Len(models_to_try)
  /\ invoked = SubSeq(models_to_try, 1, Len(invoked))
  /\ Len(hist) = Len(invoked)
  /\ \A n \in 1..(Len(hist) - 1) : hist[n].end # "parsed"
  /\ (/\ LastEnd = "parsed"
      /\ \A n \in 1..(Len(hist) - 1) : hist[n].end = "raised"
      /\ _clean_json_from_text(text).some
      /\ json_loads(_clean_json_from_text(text).s).ok)
     => /\ pc = "done"
        /\ result = ReturnedJson(json_loads(_clean_json_from_text(text).s).val)

C3_Witness ==
  /\ pc = "done" /\ Len(invoked) = 3
  /\ hist[1].end = "raised" /\ hist[2].end = "raised" /\ hist[3].end = "parsed"
  /\ Contains(text, FENCE)
  /\ result = ReturnedJson(JObj(<<[k |-> "summary", v |-> JNum]>>))

(* C4: availability is what construction computed and no call changes it; when
   it is false a call invokes no backend and returns exactly the Local Fallback
   Plan of its five inputs. *)
C4_UnavailableReturnsFallback ==
  /\ available = (GEMINI_SDK_AVAILABLE /\ GEMINI_API_KEY # <<>>)
  /\ ~available => invoked = <<>>
  /\ (~available /\ pc = "done") =>
       /\ result.kind = "returned"
       /\ DOMAIN result.plan = PlanKeys
       /\ result = FallbackOutcome

(* C5, as stated: on text without brace and fence the extraction fails, and a
   call in which every responding backend returned such text returns the Local
   Fallback Plan, never a value parsed from that text. *)
C5_Original ==
  /\ (Responded /\ Plain(text)) => ~extracted.some
  /\ (/\ pc = "done" /\ Responded
      /\ \A n \in 1..Len(hist) : hist[n].end # "raised" => hist[n].plain)
     => /\ result.kind = "returned"
        /\ result.src = "fallback"
        /\ result = FallbackOutcome

(* C5, amended: on text without brace and fence _clean_json_from_text returns
   None; generate_plan then hands the whole text to json.loads, and a call in
   which every responding backend returned such text that is not itself valid
   JSON invokes every backend of the list and ends with the outcome of
   _local_fallback_plan for its inputs, never a value parsed from that text. *)
C5_Amended ==
  /\ (Responded /\ Plain(text)) => (~extracted.some /\ cleaned = text)
  /\ (/\ pc = "done" /\ Responded
      /\ \A n \in 1..Len(hist) : hist[n].end # "raised" => hist[n].plain
      /\ \A n \in 1..Len(hist) : hist[n].end # "parsed")
     => /\ result.src # "backend"
        /\ Len(invoked) = Len(models_to_try)
        /\ result = FallbackOutcome

C5_Witness ==
  /\ pc = "done" /\ Plain(text) /\ text = <<WORD>> /\ ~extracted.some
  /\ \A n \in 1..Len(hist) : hist[n].end = "unparsed" /\ hist[n].plain
  /\ result.kind = "returned" /\ result.src = "fallback"

(* C6, as stated: with two fenced segments of which only the second holds an
   opening brace, the extraction fails. *)
C6_Original ==
  (pc = "done" /\ shape = "two" /\ ~Contains(seg1, LBRACE) /\ Contains(body, LBRACE))
    => (~extracted.some /\ result.kind # "returned")

(* C6, amended: with two fenced segments of which only the second holds an
   opening brace, the extraction does not fail: the candidate is taken from the
   second segment, the first one holding a brace, and when that segment holds a
   JSON object (behind a json tag, or with no "json" inside) the candidate
   parses to the mapping of that object. *)
C6_Amended ==
  (pc = "done" /\ shape = "two" /\ ~Contains(seg1, LBRACE) /\ Contains(body, LBRACE))
    => /\ extracted.some /\ extracted.s # <<>>
       /\ (IsJsonObject(body) /\ (tag # <<>> \/ ~Contains(body, JSONTAG)))
            => /\ extracted.s = body
               /\ result = ReturnedJson(json_loads(body).val)

C6_Witness ==
  /\ pc = "done" /\ shape = "two" /\ seg1 = <<WORD>>
  /\ body = <<LBRACE, KEY, NUM, RBRACE>>
  /\ extracted = Some(body)
  /\ result.kind = "returned"

(* C7: a JSON object inside one fence, tagged json or untagged, between
   brace-free narrative, yields the same candidate as the object alone, and
   both parse to the same mapping. *)
C7_FencedSameAsUnfenced ==
  (pc = "done" /\ shape = "fenced" /\ IsJsonObject(body))
    => /\ extracted = _clean_json_from_text(body)
       /\ extracted.s = body
       /\ result = ReturnedJson(json_loads(body).val)

(* C8: for rooms parsing as a positive integer r and area a non-negative
   numeral a, room_plan has exactly r entries "Room 1" .. "Room r", each sized
   "bxb ft" with b = max(8, floor(a / r)); rooms "3" and area "900" give three
   rooms of "300x300 ft". *)
C8_RoomsSizedByArea ==
  (pc = "done" /\ PositiveRooms /\ AreaValue.ok /\ AreaValue.n >= 0) =>
    LET r == RoomsCount.n
        q == AreaValue.n \div r
        b == IF q >= 8 THEN q ELSE 8
    IN  /\ result.kind = "returned"
        /\ Len(result.plan.room_plan) = r
        /\ \A i \in 1..r :
             /\ result.plan.room_plan[i].room = <<"Room ">> \o str(i)
             /\ result.plan.room_plan[i].size = str(b) \o <<"x">> \o str(b) \o <<" ft">>
        /\ (rooms = <<"3">> /\ area = <<"9", "0", "0">>) =>
             result.plan.room_plan =
               << [room |-> <<"Room ", "1">>, size |-> <<"3", "0", "0", "x", "3", "0", "0", " ft">>],
                  [room |-> <<"Room ", "2">>, size |-> <<"3", "0", "0", "x", "3", "0", "0", " ft">>],
                  [room |-> <<"Room ", "3">>, size |-> <<"3", "0", "0", "x", "3", "0", "0", " ft">>] >>
        /\ (rooms = <<"3">> /\ area = <<"9">>) =>
             result.plan.room_plan[1].size = <<"8", "x", "8", " ft">>

C8_Witness ==
  /\ pc = "done" /\ rooms = <<"3">> /\ area = <<"9", "0", "0">>
  /\ result.kind = "returned"
  /\ Len(result.plan.room_plan) = 3
  /\ result.plan.room_plan[3].size = <<"3", "0", "0", "x", "3", "0", "0", " ft">>

(* C9: for rooms that is zero, negative or no integer, and any area, room_plan
   is the three-entry template Master Bedroom, Living Room, Kitchen with its
   fixed sizes. *)
C9_TemplateForNonPositiveRooms ==
  (pc = "done" /\ ~PositiveRooms) =>
    /\ result.kind = "returned"
    /\ result.plan.room_plan =
         << [room |-> <<"Master Bedroom">>, size |-> <<"12x14 ft">>],
            [room |-> <<"Living Room">>,    size |-> <<"14x16 ft">>],
            [room |-> <<"Kitchen">>,        size |-> <<"10x12 ft">>] >>

C9_Witness ==
  /\ pc = "done" /\ rooms = <<"-", "3">> /\ area = <<"a">>
  /\ result.kind = "returned"
  /\ Len(result.plan.room_plan) = 3
  /\ result.plan.room_plan[1].room = <<"Master Bedroom">>

(* C10, as stated: once a backend returned text that yields no parseable JSON,
   no later backend of the list is invoked in the call and the call routes to
   the Local Fallback. *)
C10_Original ==
  \A n \in 1..Len(hist) :
    hist[n].end = "unparsed" =>
      /\ Len(invoked) = n
      /\ pc = "done" => result = FallbackOutcome

(* C10, amended: text that yields no parseable JSON makes the attempt a failed
   one: the next backend of the list is invoked, and the call routes to
   _local_fallback_plan for its inputs only after the last backend of the list
   has failed. *)
C10_Amended ==
  /\ \A n \in 1..Len(hist) :
       (hist[n].end = "unparsed" /\ n < Len(models_to_try) /\ pc = "done")
         => (Len(invoked) >= n + 1 /\ invoked[n + 1] = models_to_try[n + 1])
  /\ (available /\ pc = "done" /\ LastEnd # "parsed")
       => /\ Len(invoked) = Len(models_to_try)
          /\ \A n \in 1..Len(hist) : hist[n].end \in {"raised", "unparsed"}
          /\ result = FallbackOutcome

C10_Witness ==
  /\ pc = "done" /\ Len(invoked) = 2
  /\ hist[1].end = "unparsed" /\ text = <<LBRACE, RBRACE>>
  /\ invoked[2] = "gemini-1.5-flash"
  /\ result = ReturnedJson(JObj(<<>>))

====
